---------------------------- MODULE Spec2Model ----------------------------
(***************************************************************************)
(* The statsd console server (pkg/statsd/console.go): the accept loop, the *)
(* per-connection command loop, and the two fan-out operations the console *)
(* commands run against the Dispatcher's shards, printMetrics and delete.  *)
(*                                                                         *)
(* The Dispatcher, the Aggregators and the command-loop library are not    *)
(* part of console.go; they are modelled from their contracts: every       *)
(* worker owns one MetricMap and one FIFO queue of work, Process puts one  *)
(* work item on every queue and hands back a WaitGroup, and the command    *)
(* loop reads a line, runs the command, writes its response and stops on   *)
(* the first error.                                                        *)
(***************************************************************************)
EXTENDS Integers, Sequences, FiniteSets, TLC

VARIABLES
    shards,     \* worker -> MetricMap: kind -> set of <<name, value>>
    queue,      \* worker -> FIFO of work items submitted by Dispatcher.Process
    running,    \* worker -> the printMetrics closure parked at its select
    cancelled,  \* ctx.Done() is closed
    serveRet,   \* what Serve has returned: "" while it is accepting
    script,     \* client -> the lines that client sends (fixed per run)
    hangup,     \* client -> the error of the read after its last line, "" when
                \* the client stays connected and silent (fixed per run)
    nread,      \* session -> number of lines the command loop has read
    conn,       \* session -> "none" | "open" | "closed"
    pc,         \* session -> where its goroutine is
    results,    \* session -> content of printMetrics' results channel
    closedCh,   \* session -> close(results) has run
    sup,        \* session -> the goroutine of lines 154-157
    wg,         \* session -> counter of the WaitGroup Process returned
    counter,    \* session -> delete's counter
    acc,        \* session -> printMetrics' accumulating buffer
    hist,       \* session -> the commands run, with response and error
    loopErr,    \* session -> the error console.Loop returned
    logged,     \* session -> number of "Problem with console connection" lines
    snap,       \* session -> worker -> what the worker of the current read saw
    shards0     \* the shards as they were at start (never changes)

vars == <<shards, queue, running, cancelled, serveRet, script, hangup, nread, conn, pc,
          results, closedCh, sup, wg, counter, acc, hist, loopErr, logged,
          snap, shards0>>

---------------------------------------------------------------------------
(* Bounds *)

\* The number of shards of the runs of Spec.
NumShards == 2

\* The ids of the shards of the runs of Spec.
ShardIds == 0 .. (NumShards - 1)

\* The workers of the Dispatcher, one per shard: fixed for a run.
Workers == DOMAIN shards

Sessions == {"s1", "s2", "s3"}

Kinds == {"counters", "timers", "gauges", "sets"}

\* The metric names of the model, in the order fmt prints map keys.
NameOrder == <<"a", "b", "g", "t", "u", "x">>

---------------------------------------------------------------------------
(* Errors *)

ErrNil == "nil"

errClientQuit == "client quit"

ErrCanceled == "context canceled"

ErrDeadlineExceeded == "context deadline exceeded"

ErrIO == "read: connection reset"


---------------------------------------------------------------------------
(* The shard state: gostatsd.MetricMap and gostatsd.AggregatedMetrics *)

\* One collection is a set of <<name, value>> pairs, at most one per name.
HasKey(metrics, k) == \E p \in metrics : p[1] = k

\* AggregatedMetrics.Delete(k): removes k when present, does nothing otherwise.
MetricsDelete(metrics, k) == {p \in metrics : p[1] # k}

MapA ==
    [counters |-> {<<"a", "5">>}, timers |-> {<<"t", "2">>},
     gauges |-> {<<"x", "7">>, <<"g", "1">>}, sets |-> {<<"u", "1">>}]

MapB ==
    [counters |-> {<<"b", "3">>}, timers |-> {},
     gauges |-> {<<"g", "4">>}, sets |-> {<<"u", "1">>}]

MapAB ==
    [counters |-> {<<"a", "1">>, <<"b", "3">>}, timers |-> {<<"t", "2">>},
     gauges |-> {<<"x", "2">>}, sets |-> {}]

\* The MetricMaps a shard may hold when the console starts to act on it.
MapChoices == {MapA, MapB, MapAB}

\* The mapperFuncs. A Go map is a reference: the result names the collection
\* of m it refers to, so that Delete through it changes m.
getCounters(m) == "counters"

getSets(m) == "sets"

\* getGauges as it would be if it returned the wrong field.
getGaugesWrongField(m) == "counters"

getGauges(m) == "gauges"

getTimers(m) == "timers"

\* f(m) for a mapperFunc value f.
ApplyMapper(f, m) ==
    CASE f = "getCounters" -> getCounters(m)
      [] f = "getSets" -> getSets(m)
      [] f = "getGauges" -> getGauges(m)
      [] f = "getTimers" -> getTimers(m)

---------------------------------------------------------------------------
(* Formatting *)

Digits == <<"0", "1", "2", "3", "4", "5", "6", "7", "8", "9">>

\* %d of a uint32: its decimal digits.
RECURSIVE Itoa(_)
Itoa(n) ==
    IF n < 10 THEN <<Digits[n + 1]>>
    ELSE Itoa(n \div 10) \o <<Digits[(n % 10) + 1]>>

RECURSIVE PrintEntries(_, _)
PrintEntries(metrics, i) ==
    IF i > Len(NameOrder) THEN <<>>
    ELSE LET here == {p \in metrics : p[1] = NameOrder[i]}
         IN  (IF here = {} THEN <<>>
              ELSE LET p == CHOOSE q \in here : TRUE
                   IN  <<p[1], ":", p[2]>>)
             \o PrintEntries(metrics, i + 1)

\* fmt.Fprintln(buf, metrics): the map between brackets, keys in order, and
\* a newline.
Fprintln(metrics) == <<"map[">> \o PrintEntries(metrics, 1) \o <<"]", "\n">>

---------------------------------------------------------------------------
(* The command table of Serve *)

HelpText ==
    <<"Commands: stats, counters, timers, gauges, delcounters, deltimers, delgauges, quit", "\n">>

\* What Receiver.GetStats() and Flusher.GetStats() return.
ReceiverStats == [BadLines |-> 1, MetricsReceived |-> 12, PacketsReceived |-> 3]

StatsText ==
    <<"Invalid messages received: ">> \o Itoa(ReceiverStats.BadLines) \o <<"\n">>
    \o <<"Metrics received: ">> \o Itoa(ReceiverStats.MetricsReceived) \o <<"\n">>
    \o <<"Packets received: ">> \o Itoa(ReceiverStats.PacketsReceived) \o <<"\n">>
    \o <<"Last packet received: ", "<LastPacket>", "\n">>
    \o <<"Last flush to backends: ", "<LastFlush>", "\n">>
    \o <<"Last error from backends: ", "<LastFlushError>", "\n">>

PrintCommands == {"counters", "timers", "gauges", "sets"}

DeleteCommands == {"delcounters", "deltimers", "delgauges", "delsets"}

SimpleCommands == {"help", "stats", "quit"}

\* CommandMapper as it would be if delgauges passed getCounters.
CommandMapperDelgaugesCounters(name) ==
    CASE name \in {"counters", "delcounters", "delgauges"} -> "getCounters"
      [] name \in {"timers", "deltimers"} -> "getTimers"
      [] name \in {"gauges"} -> "getGauges"
      [] name \in {"sets", "delsets"} -> "getSets"

\* The mapperFunc a listing or deleting command passes on.
CommandMapper(name) ==
    CASE name \in {"counters", "delcounters"} -> "getCounters"
      [] name \in {"timers", "deltimers"} -> "getTimers"
      [] name \in {"gauges", "delgauges"} -> "getGauges"
      [] name \in {"sets", "delsets"} -> "getSets"

\* The noun in a deleting command's response.
DeleteNoun(name) ==
    CASE name = "delcounters" -> "counters"
      [] name = "deltimers" -> "timers"
      [] name = "delgauges" -> "gauges"
      [] name = "delsets" -> "sets"

\* fmt.Sprintf("deleted %d counters\n", i)
DeleteText(name, i) == <<"deleted ">> \o Itoa(i) \o <<" ", DeleteNoun(name), "\n">>

CmdHelp == [text |-> HelpText, err |-> ErrNil]

CmdStats == [text |-> StatsText, err |-> ErrNil]

\* The quit command as it would be if it returned no error.
CmdQuitNoError == [text |-> <<"goodbye", "\n">>, err |-> ErrNil]

CmdQuit == [text |-> <<"goodbye", "\n">>, err |-> errClientQuit]

\* The commands that answer without the Dispatcher.
SimpleCommand(name) ==
    CASE name = "help" -> CmdHelp
      [] name = "stats" -> CmdStats
      [] name = "quit" -> CmdQuit

---------------------------------------------------------------------------
(* Clients *)

\* What the clients of one run do: client -> the lines it sends, each line
\* already split into fields, and client -> how the read after its last line
\* ends. A session not named never connects.
Stay == ""

ScDelete ==
    [lines |-> "s1" :> << <<"delcounters", "a">>, <<"counters">> >>,
     hangup |-> "s1" :> Stay]

ScDeleteTwice ==
    [lines |-> "s1" :> << <<"delcounters", "a", "b", "a">>, <<"counters">> >>,
     hangup |-> "s1" :> ErrNil]

ScThree ==
    [lines |-> "s1" :> << <<"stats">> >> @@ "s2" :> << <<"counters">> >>
               @@ "s3" :> << <<"delgauges", "x">> >>,
     hangup |-> "s1" :> Stay @@ "s2" :> Stay @@ "s3" :> Stay]

ScQuit ==
    [lines |-> "s1" :> << <<"quit">>, <<"counters">> >>
               @@ "s2" :> << <<"help">>, <<>>, <<"bogus">> >>,
     hangup |-> "s1" :> Stay @@ "s2" :> ErrDeadlineExceeded]

ScIdle ==
    [lines |-> "s1" :> << >> @@ "s2" :> << <<"gauges">> >> @@ "s3" :> << >>,
     hangup |-> "s1" :> Stay @@ "s2" :> ErrIO @@ "s3" :> ErrCanceled]

ScKinds ==
    [lines |-> "s1" :> << <<"timers">> >> @@ "s2" :> << <<"deltimers", "t">> >>,
     hangup |-> "s1" :> Stay @@ "s2" :> Stay]

ScSets ==
    [lines |-> "s1" :> << <<"delsets", "u", "zz">>, <<"sets">> >>,
     hangup |-> "s1" :> Stay]

\* Two clients that each send one listing command (the runs of SpecReads).
ScTwoReads ==
    [lines |-> "s1" :> << <<"counters">> >> @@ "s2" :> << <<"gauges">> >>,
     hangup |-> "s1" :> Stay @@ "s2" :> Stay]

\* One client that lists the counters and then deletes one.
ScReadThenDelete ==
    [lines |-> "s1" :> << <<"counters">>, <<"delcounters", "a">> >>,
     hangup |-> "s1" :> Stay]

Scenarios ==
    {ScDelete, ScDeleteTwice, ScThree, ScQuit, ScIdle, ScKinds, ScSets, ScReadThenDelete}

Clients == DOMAIN script

---------------------------------------------------------------------------
(* Initial state *)

NoSnap == [w \in Workers |-> [st |-> "none", coll |-> {}]]

IdleWorker == [busy |-> FALSE, call |-> "", buf |-> <<>>]

Init ==
    /\ shards \in [ShardIds -> MapChoices]
    /\ shards0 = shards
    /\ \E sc \in Scenarios : script = sc.lines /\ hangup = sc.hangup
    /\ queue = [w \in Workers |-> <<>>]
    /\ running = [w \in Workers |-> IdleWorker]
    /\ cancelled = FALSE
    /\ serveRet = ""
    /\ nread = [s \in Sessions |-> 0]
    /\ conn = [s \in Sessions |-> "none"]
    /\ pc = [s \in Sessions |-> "none"]
    /\ results = [s \in Sessions |-> <<>>]
    /\ closedCh = [s \in Sessions |-> FALSE]
    /\ sup = [s \in Sessions |-> "none"]
    /\ wg = [s \in Sessions |-> 0]
    /\ counter = [s \in Sessions |-> 0]
    /\ acc = [s \in Sessions |-> <<>>]
    /\ hist = [s \in Sessions |-> <<>>]
    /\ loopErr = [s \in Sessions |-> ErrNil]
    /\ logged = [s \in Sessions |-> 0]
    /\ snap = [s \in Sessions |-> NoSnap]

---------------------------------------------------------------------------
(* The context and the listener *)

\* The context passed to Serve is cancelled (or its deadline passes).
Cancel ==
    /\ ~cancelled
    /\ cancelled' = TRUE
    /\ UNCHANGED <<shards, queue, running, serveRet, script, hangup, nread, conn, pc,
                   results, closedCh, sup, wg, counter, acc, hist, loopErr,
                   logged, snap, shards0>>

\* Accept as it would be if serveConnection were called without "go": the
\* accept loop would wait for the session to end.
AcceptWithoutGo(s) ==
    /\ serveRet = ""
    /\ s \in Clients
    /\ conn[s] = "none"
    /\ \A t \in Sessions : conn[t] # "open"
    /\ conn' = [conn EXCEPT ![s] = "open"]
    /\ pc' = [pc EXCEPT ![s] = "await"]
    /\ UNCHANGED <<shards, queue, running, cancelled, serveRet, script, hangup, nread,
                   results, closedCh, sup, wg, counter, acc, hist, loopErr,
                   logged, snap, shards0>>

\* Serve: l.Accept() succeeds and serveConnection starts in a new goroutine.
Accept(s) ==
    /\ serveRet = ""
    /\ s \in Clients
    /\ conn[s] = "none"
    /\ conn' = [conn EXCEPT ![s] = "open"]
    /\ pc' = [pc EXCEPT ![s] = "await"]
    /\ UNCHANGED <<shards, queue, running, cancelled, serveRet, script, hangup, nread,
                   results, closedCh, sup, wg, counter, acc, hist, loopErr,
                   logged, snap, shards0>>

\* Serve: l.Accept() fails and Serve returns the error.
AcceptFail ==
    /\ serveRet = ""
    /\ serveRet' = "accept error"
    /\ UNCHANGED <<shards, queue, running, cancelled, script, hangup, nread, conn, pc,
                   results, closedCh, sup, wg, counter, acc, hist, loopErr,
                   logged, snap, shards0>>

---------------------------------------------------------------------------
(* serveConnection and the command loop *)

\* ShouldLog as it would be without the comparison with context.Canceled.
ShouldLogCanceled(err) ==
    /\ err # ErrNil
    /\ err # ErrDeadlineExceeded
    /\ err # errClientQuit

\* The condition under which serveConnection logs what Loop returned.
ShouldLog(err) ==
    /\ err # ErrNil
    /\ err # ErrCanceled
    /\ err # ErrDeadlineExceeded
    /\ err # errClientQuit

\* EndLoop as it would be if conn.Close() were called only where the error
\* is handled instead of being deferred: a loop that ends with no error
\* leaves the connection open.
EndLoopCloseOnError(s, err) ==
    /\ loopErr' = [loopErr EXCEPT ![s] = err]
    /\ logged' = [logged EXCEPT ![s] = IF ShouldLog(err) THEN @ + 1 ELSE @]
    /\ conn' = [conn EXCEPT ![s] = IF err = ErrNil THEN @ ELSE "closed"]
    /\ pc' = [pc EXCEPT ![s] = "closed"]

\* console.Loop() returns err: serveConnection logs it or not, and the
\* deferred conn.Close() runs.
EndLoop(s, err) ==
    /\ loopErr' = [loopErr EXCEPT ![s] = err]
    /\ logged' = [logged EXCEPT ![s] = IF ShouldLog(err) THEN @ + 1 ELSE @]
    /\ conn' = [conn EXCEPT ![s] = "closed"]
    /\ pc' = [pc EXCEPT ![s] = "closed"]

CanRead(s) == pc[s] = "await" /\ nread[s] < Len(script[s])

NextLine(s) == script[s][nread[s] + 1]

\* The line whose command the session is running.
CurLine(s) == script[s][nread[s]]

Reply(line, ret, text, err) == [cmd |-> line, ret |-> ret, text |-> text, err |-> err]

\* A blank line: nothing runs, nothing is written.
ExecBlank(s) ==
    /\ CanRead(s)
    /\ NextLine(s) = <<>>
    /\ nread' = [nread EXCEPT ![s] = @ + 1]
    /\ UNCHANGED <<shards, queue, running, cancelled, serveRet, script, hangup, conn, pc,
                   results, closedCh, sup, wg, counter, acc, hist, loopErr,
                   logged, snap, shards0>>

\* A name that is not in the table: an error line, and the loop goes on.
ExecUnknown(s) ==
    /\ CanRead(s)
    /\ NextLine(s) # <<>>
    /\ Head(NextLine(s)) \notin SimpleCommands \cup PrintCommands \cup DeleteCommands
    /\ nread' = [nread EXCEPT ![s] = @ + 1]
    /\ hist' = [hist EXCEPT ![s] =
                   Append(@, Reply(NextLine(s), 0, <<"unknown command", "\n">>, ErrNil))]
    /\ UNCHANGED <<shards, queue, running, cancelled, serveRet, script, hangup, conn, pc,
                   results, closedCh, sup, wg, counter, acc, loopErr,
                   logged, snap, shards0>>

\* help, stats, quit: the command answers at once; the loop writes the
\* response and ends when the command returned an error.
ExecSimple(s) ==
    /\ CanRead(s)
    /\ NextLine(s) # <<>>
    /\ Head(NextLine(s)) \in SimpleCommands
    /\ LET r == SimpleCommand(Head(NextLine(s)))
       IN  /\ hist' = [hist EXCEPT ![s] = Append(@, Reply(NextLine(s), 0, r.text, r.err))]
           /\ IF r.err # ErrNil
                 THEN EndLoop(s, r.err)
                 ELSE UNCHANGED <<loopErr, logged, conn, pc>>
    /\ nread' = [nread EXCEPT ![s] = @ + 1]
    /\ UNCHANGED <<shards, queue, running, cancelled, serveRet, script, hangup,
                   results, closedCh, sup, wg, counter, acc, snap, shards0>>

\* The read after the client's last line fails, or finds the connection
\* closed by the client: Loop returns what the read returned (nil at the end
\* of the input).
ConnError(s) ==
    /\ pc[s] = "await"
    /\ nread[s] = Len(script[s])
    /\ hangup[s] # Stay
    /\ EndLoop(s, hangup[s])
    /\ UNCHANGED <<shards, queue, running, cancelled, serveRet, script, hangup, nread,
                   results, closedCh, sup, wg, counter, acc, hist, snap, shards0>>

---------------------------------------------------------------------------
(* Dispatcher.Process and the shard workers *)

\* The capacity of printMetrics' results channel.
ResultsCap == 16

\* Dispatcher.Process(ctx, fn): fn is put on every worker's queue, behind
\* what is already there; the WaitGroup returned counts the workers.
DispatcherProcess(item) == [w \in Workers |-> Append(queue[w], item)]

\* The loop of delete's closure: every key is deleted and counted. (i and
\* counter are uint32; they stay below the number of shards times the number
\* of keys, far from 2^32.)
RECURSIVE DeleteLoop(_, _, _)
DeleteLoop(metrics, keys, i) ==
    IF keys = <<>> THEN [metrics |-> metrics, i |-> i]
    ELSE DeleteLoop(MetricsDelete(metrics, Head(keys)), Tail(keys), i + 1)

\* DeleteWork as it would be if the keys were deleted from a copy of the
\* collection: the shard's map stays as it was.
DeleteWorkOnCopy(m, f, keys) ==
    LET ref == ApplyMapper(f, m)
        r == DeleteLoop(m[ref], keys, 0)
    IN  [m |-> m, i |-> r.i]

\* delete's closure on MetricMap m: the map afterwards and the count it adds.
DeleteWork(m, f, keys) ==
    LET ref == ApplyMapper(f, m)
        r == DeleteLoop(m[ref], keys, 0)
    IN  [m |-> [m EXCEPT ![ref] = r.metrics], i |-> r.i]

\* printMetrics' closure on MetricMap m, up to its select: the buffer.
PrintWork(m, f) == Fprintln(m[ApplyMapper(f, m)])

\* A listing command: printMetrics makes the channel, hands the closure to
\* the Dispatcher and starts the goroutine that closes the channel.
StartPrint(s) ==
    /\ CanRead(s)
    /\ NextLine(s) # <<>>
    /\ Head(NextLine(s)) \in PrintCommands
    /\ nread' = [nread EXCEPT ![s] = @ + 1]
    /\ results' = [results EXCEPT ![s] = <<>>]
    /\ closedCh' = [closedCh EXCEPT ![s] = FALSE]
    /\ acc' = [acc EXCEPT ![s] = <<>>]
    /\ snap' = [snap EXCEPT ![s] = NoSnap]
    /\ queue' = DispatcherProcess([call |-> s, op |-> "print",
                                   f |-> CommandMapper(Head(NextLine(s))),
                                   keys |-> <<>>])
    /\ wg' = [wg EXCEPT ![s] = Cardinality(Workers)]
    /\ sup' = [sup EXCEPT ![s] = "waiting"]
    /\ pc' = [pc EXCEPT ![s] = "drain"]
    /\ UNCHANGED <<shards, running, cancelled, serveRet, script, hangup, conn, counter,
                   hist, loopErr, logged, shards0>>

\* StartDelete as it would be if delete removed the keys from every shard
\* in the session's goroutine instead of handing a closure to the
\* Dispatcher.
StartDeleteInline(s) ==
    /\ CanRead(s)
    /\ NextLine(s) # <<>>
    /\ Head(NextLine(s)) \in DeleteCommands
    /\ nread' = [nread EXCEPT ![s] = @ + 1]
    /\ shards' = [w \in Workers |->
           DeleteWork(shards[w], CommandMapper(Head(NextLine(s))), Tail(NextLine(s))).m]
    /\ counter' = [counter EXCEPT ![s] = Cardinality(Workers) * Len(Tail(NextLine(s)))]
    /\ wg' = [wg EXCEPT ![s] = 0]
    /\ pc' = [pc EXCEPT ![s] = "wait"]
    /\ UNCHANGED <<queue, running, cancelled, serveRet, script, hangup, conn, results,
                   closedCh, sup, acc, hist, loopErr, logged, snap, shards0>>

\* A deleting command: delete hands the closure to the Dispatcher.
StartDelete(s) ==
    /\ CanRead(s)
    /\ NextLine(s) # <<>>
    /\ Head(NextLine(s)) \in DeleteCommands
    /\ nread' = [nread EXCEPT ![s] = @ + 1]
    /\ counter' = [counter EXCEPT ![s] = 0]
    /\ queue' = DispatcherProcess([call |-> s, op |-> "delete",
                                   f |-> CommandMapper(Head(NextLine(s))),
                                   keys |-> Tail(NextLine(s))])
    /\ wg' = [wg EXCEPT ![s] = Cardinality(Workers)]
    /\ pc' = [pc EXCEPT ![s] = "wait"]
    /\ UNCHANGED <<shards, running, cancelled, serveRet, script, hangup, conn, results,
                   closedCh, sup, acc, hist, loopErr, logged, snap, shards0>>

\* WorkerDelete as it would be if the closure looked at the context first
\* and did nothing once it is done.
WorkerDeleteChecksCtx(w) ==
    /\ ~running[w].busy
    /\ queue[w] # <<>>
    /\ Head(queue[w]).op = "delete"
    /\ LET item == Head(queue[w])
           r == IF cancelled THEN [m |-> shards[w], i |-> 0]
                ELSE DeleteWork(shards[w], item.f, item.keys)
       IN  /\ shards' = [shards EXCEPT ![w] = r.m]
           /\ counter' = [counter EXCEPT ![item.call] = @ + r.i]
           /\ wg' = [wg EXCEPT ![item.call] = @ - 1]
    /\ queue' = [queue EXCEPT ![w] = Tail(@)]
    /\ UNCHANGED <<running, cancelled, serveRet, script, hangup, nread, conn, pc,
                   results, closedCh, sup, acc, hist, loopErr, logged, snap,
                   shards0>>

\* Worker w runs the delete closure at the head of its queue.
WorkerDelete(w) ==
    /\ ~running[w].busy
    /\ queue[w] # <<>>
    /\ Head(queue[w]).op = "delete"
    /\ LET item == Head(queue[w])
           r == DeleteWork(shards[w], item.f, item.keys)
       IN  /\ shards' = [shards EXCEPT ![w] = r.m]
           /\ counter' = [counter EXCEPT ![item.call] = @ + r.i]
           /\ wg' = [wg EXCEPT ![item.call] = @ - 1]
    /\ queue' = [queue EXCEPT ![w] = Tail(@)]
    /\ UNCHANGED <<running, cancelled, serveRet, script, hangup, nread, conn, pc,
                   results, closedCh, sup, acc, hist, loopErr, logged, snap,
                   shards0>>

\* Worker w runs the printMetrics closure at the head of its queue up to the
\* select.
WorkerPrint(w) ==
    /\ ~running[w].busy
    /\ queue[w] # <<>>
    /\ Head(queue[w]).op = "print"
    /\ LET item == Head(queue[w])
       IN  /\ running' = [running EXCEPT ![w] =
                  [busy |-> TRUE, call |-> item.call, buf |-> PrintWork(shards[w], item.f)]]
           /\ snap' = [snap EXCEPT ![item.call][w] =
                  [st |-> "held", coll |-> shards[w][Head(CurLine(item.call))]]]
    /\ queue' = [queue EXCEPT ![w] = Tail(@)]
    /\ UNCHANGED <<shards, cancelled, serveRet, script, hangup, nread, conn, pc,
                   results, closedCh, sup, wg, counter, acc, hist, loopErr,
                   logged, shards0>>

\* WorkerSend as it would be if the channel had no capacity limit.
WorkerSendUnbounded(w) ==
    /\ running[w].busy
    /\ LET s == running[w].call
       IN  /\ results' = [results EXCEPT ![s] = Append(@, running[w].buf)]
           /\ wg' = [wg EXCEPT ![s] = @ - 1]
           /\ snap' = [snap EXCEPT ![s][w].st = "sent"]
    /\ running' = [running EXCEPT ![w] = IdleWorker]
    /\ UNCHANGED <<shards, queue, cancelled, serveRet, script, hangup, nread, conn, pc,
                   closedCh, sup, counter, acc, hist, loopErr, logged, shards0>>

\* WorkerSend as it would be if all reads shared the channel of the first
\* session.
WorkerSendShared(w) ==
    /\ running[w].busy
    /\ Len(results["s1"]) < ResultsCap
    /\ LET s == running[w].call
       IN  /\ results' = [results EXCEPT !["s1"] = Append(@, running[w].buf)]
           /\ wg' = [wg EXCEPT ![s] = @ - 1]
           /\ snap' = [snap EXCEPT ![s][w].st = "sent"]
    /\ running' = [running EXCEPT ![w] = IdleWorker]
    /\ UNCHANGED <<shards, queue, cancelled, serveRet, script, hangup, nread, conn, pc,
                   closedCh, sup, counter, acc, hist, loopErr, logged, shards0>>

\* The select takes "results <- buf".
WorkerSend(w) ==
    /\ running[w].busy
    /\ Len(results[running[w].call]) < ResultsCap
    /\ LET s == running[w].call
       IN  /\ results' = [results EXCEPT ![s] = Append(@, running[w].buf)]
           /\ wg' = [wg EXCEPT ![s] = @ - 1]
           /\ snap' = [snap EXCEPT ![s][w].st = "sent"]
    /\ running' = [running EXCEPT ![w] = IdleWorker]
    /\ UNCHANGED <<shards, queue, cancelled, serveRet, script, hangup, nread, conn, pc,
                   closedCh, sup, counter, acc, hist, loopErr, logged, shards0>>

\* WorkerAbandon as it would be if the worker that saw the context done
\* sent its buffer all the same.
WorkerAbandonSends(w) ==
    /\ running[w].busy
    /\ cancelled
    /\ Len(results[running[w].call]) < ResultsCap
    /\ LET s == running[w].call
       IN  /\ wg' = [wg EXCEPT ![s] = @ - 1]
           /\ snap' = [snap EXCEPT ![s][w].st = "dropped"]
           /\ results' = [results EXCEPT ![s] = Append(@, running[w].buf)]
    /\ running' = [running EXCEPT ![w] = IdleWorker]
    /\ UNCHANGED <<shards, queue, cancelled, serveRet, script, hangup, nread, conn, pc,
                   closedCh, sup, counter, acc, hist, loopErr, logged,
                   shards0>>

\* The select takes "<-ctx.Done()": the buffer is dropped.
WorkerAbandon(w) ==
    /\ running[w].busy
    /\ cancelled
    /\ LET s == running[w].call
       IN  /\ wg' = [wg EXCEPT ![s] = @ - 1]
           /\ snap' = [snap EXCEPT ![s][w].st = "dropped"]
    /\ running' = [running EXCEPT ![w] = IdleWorker]
    /\ UNCHANGED <<shards, queue, cancelled, serveRet, script, hangup, nread, conn, pc,
                   results, closedCh, sup, counter, acc, hist, loopErr, logged,
                   shards0>>

\* Supervisor as it would be if the goroutine closed the channel without
\* waiting for the workers.
SupervisorNoWait(s) ==
    /\ sup[s] = "waiting"
    /\ closedCh' = [closedCh EXCEPT ![s] = TRUE]
    /\ sup' = [sup EXCEPT ![s] = "done"]
    /\ UNCHANGED <<shards, queue, running, cancelled, serveRet, script, hangup, nread,
                   conn, pc, results, wg, counter, acc, hist, loopErr, logged,
                   snap, shards0>>

\* The goroutine of printMetrics: wg.Wait() returns, close(results).
Supervisor(s) ==
    /\ sup[s] = "waiting"
    /\ wg[s] = 0
    /\ closedCh' = [closedCh EXCEPT ![s] = TRUE]
    /\ sup' = [sup EXCEPT ![s] = "done"]
    /\ UNCHANGED <<shards, queue, running, cancelled, serveRet, script, hangup, nread,
                   conn, pc, results, wg, counter, acc, hist, loopErr, logged,
                   snap, shards0>>

\* DrainRecv as it would be if every buffer received replaced what was
\* collected so far.
DrainRecvOverwrite(s) ==
    /\ pc[s] = "drain"
    /\ results[s] # <<>>
    /\ acc' = [acc EXCEPT ![s] = Head(results[s])]
    /\ results' = [results EXCEPT ![s] = Tail(@)]
    /\ UNCHANGED <<shards, queue, running, cancelled, serveRet, script, hangup, nread,
                   conn, pc, closedCh, sup, wg, counter, hist, loopErr, logged,
                   snap, shards0>>

\* printMetrics' range loop receives a buffer and writes it to buf.
DrainRecv(s) ==
    /\ pc[s] = "drain"
    /\ results[s] # <<>>
    /\ acc' = [acc EXCEPT ![s] = @ \o Head(results[s])]
    /\ results' = [results EXCEPT ![s] = Tail(@)]
    /\ UNCHANGED <<shards, queue, running, cancelled, serveRet, script, hangup, nread,
                   conn, pc, closedCh, sup, wg, counter, hist, loopErr, logged,
                   snap, shards0>>

\* DrainEnd as it would be if the range loop ended as soon as the channel
\* was empty, closed or not.
DrainEndOnEmpty(s) ==
    /\ pc[s] = "drain"
    /\ results[s] = <<>>
    /\ hist' = [hist EXCEPT ![s] = Append(@, Reply(CurLine(s), 0, acc[s], ErrNil))]
    /\ pc' = [pc EXCEPT ![s] = "await"]
    /\ UNCHANGED <<shards, queue, running, cancelled, serveRet, script, hangup, nread,
                   conn, results, closedCh, sup, wg, counter, acc, loopErr,
                   logged, snap, shards0>>

\* The range loop ends on the closed, empty channel; printMetrics returns
\* buf.String() and a nil error, and the loop writes the response.
DrainEnd(s) ==
    /\ pc[s] = "drain"
    /\ results[s] = <<>>
    /\ closedCh[s]
    /\ hist' = [hist EXCEPT ![s] = Append(@, Reply(CurLine(s), 0, acc[s], ErrNil))]
    /\ pc' = [pc EXCEPT ![s] = "await"]
    /\ UNCHANGED <<shards, queue, running, cancelled, serveRet, script, hangup, nread,
                   conn, results, closedCh, sup, wg, counter, acc, loopErr,
                   logged, snap, shards0>>

\* DeleteReturn as it would be if delete read the counter without
\* wg.Wait().
DeleteReturnNoWait(s) ==
    /\ pc[s] = "wait"
    /\ hist' = [hist EXCEPT ![s] =
           Append(@, Reply(CurLine(s), counter[s],
                           DeleteText(Head(CurLine(s)), counter[s]), ErrNil))]
    /\ pc' = [pc EXCEPT ![s] = "await"]
    /\ UNCHANGED <<shards, queue, running, cancelled, serveRet, script, hangup, nread,
                   conn, results, closedCh, sup, wg, counter, acc, loopErr,
                   logged, snap, shards0>>

\* delete: wg.Wait() returns, delete returns counter, and the loop writes
\* the command's response.
DeleteReturn(s) ==
    /\ pc[s] = "wait"
    /\ wg[s] = 0
    /\ hist' = [hist EXCEPT ![s] =
           Append(@, Reply(CurLine(s), counter[s],
                           DeleteText(Head(CurLine(s)), counter[s]), ErrNil))]
    /\ pc' = [pc EXCEPT ![s] = "await"]
    /\ UNCHANGED <<shards, queue, running, cancelled, serveRet, script, hangup, nread,
                   conn, results, closedCh, sup, wg, counter, acc, loopErr,
                   logged, snap, shards0>>

---------------------------------------------------------------------------
(* The specification *)

\* What the goroutine of session s can do by itself.
SessionStep(s) ==
    \/ ExecBlank(s)
    \/ ExecUnknown(s)
    \/ ExecSimple(s)
    \/ StartPrint(s)
    \/ StartDelete(s)
    \/ DrainRecv(s)
    \/ DrainEnd(s)
    \/ DeleteReturn(s)

WorkerStep(w) ==
    \/ WorkerDelete(w)
    \/ WorkerPrint(w)
    \/ WorkerSend(w)
    \/ WorkerAbandon(w)

Next ==
    \/ Cancel
    \/ AcceptFail
    \/ \E s \in Sessions : Accept(s)
    \/ \E s \in Sessions : SessionStep(s)
    \/ \E s \in Sessions : Supervisor(s)
    \/ \E s \in Sessions : ConnError(s)
    \/ \E w \in ShardIds : WorkerStep(w)

Spec == Init /\ [][Next]_vars

---------------------------------------------------------------------------
(* Vocabulary of the properties *)

\* The orders in which the elements of S can arrive.
RECURSIVE Orders(_)
Orders(S) ==
    IF S = {} THEN {<<>>}
    ELSE UNION {{<<x>> \o o : o \in Orders(S \ {x})} : x \in S}

RECURSIVE Concat(_, _)
Concat(order, bufs) ==
    IF order = <<>> THEN <<>>
    ELSE bufs[Head(order)] \o Concat(Tail(order), bufs)

\* text is the buffers of the workers W, each once, in some order.
IsConcatOf(text, W, bufs) == \E o \in Orders(W) : text = Concat(o, bufs)

Range(seq) == {seq[i] : i \in 1 .. Len(seq)}

IsDelete(h) == Head(h.cmd) \in DeleteCommands

IsPrint(h) == Head(h.cmd) \in PrintCommands

\* The kind of collection a listing or deleting command is about.
KindOf(name) == IF name \in PrintCommands THEN name ELSE DeleteNoun(name)

DeleteLines(s) ==
    IF s \in Clients
    THEN {i \in 1 .. Len(script[s]) :
             script[s][i] # <<>> /\ Head(script[s][i]) \in DeleteCommands}
    ELSE {}

\* Session s sends the only deleting line of the whole run.
OnlyDelete(s) ==
    /\ Cardinality(DeleteLines(s)) = 1
    /\ \A t \in Sessions \ {s} : DeleteLines(t) = {}

\* The shards that hold key k in the collection of that kind at the start.
Holding(kind, k) == {w \in Workers : HasKey(shards0[w][kind], k)}

\* Session s has returned from a listing command and started nothing since.
ReadReturned(s) ==
    /\ pc[s] # "drain"
    /\ hist[s] # <<>>
    /\ IsPrint(hist[s][Len(hist[s])])

LastReply(s) == hist[s][Len(hist[s])]

SnapBufs(s) == [w \in Workers |-> Fprintln(snap[s][w].coll)]

SentBy(s) == {w \in Workers : snap[s][w].st = "sent"}

DroppedBy(s) == {w \in Workers : snap[s][w].st = "dropped"}

---------------------------------------------------------------------------
(* Properties of delete *)

\* C1: a delete of the single key k, the only delete of the run, returns the
\* number of shards that held k in the selected collection (0 when none
\* did), with no error.
C1_DeleteReturnsShardsHoldingKey ==
    \A s \in Sessions : \A i \in 1 .. Len(hist[s]) :
        LET h == hist[s][i]
        IN  (IsDelete(h) /\ Len(h.cmd) = 2 /\ OnlyDelete(s)) =>
                /\ h.ret = Cardinality(Holding(KindOf(Head(h.cmd)), h.cmd[2]))
                /\ h.err = ErrNil

\* C2: with key a held by exactly one shard and key b by exactly one other
\* shard, a delete of a, b, a returns 2: listing a twice does not count it
\* twice.
C2_RepeatedKeyCountsOnce ==
    \A s \in Sessions : \A i \in 1 .. Len(hist[s]) :
        LET h == hist[s][i]
            kind == KindOf(Head(h.cmd))
        IN  (/\ IsDelete(h)
             /\ OnlyDelete(s)
             /\ Tail(h.cmd) = <<"a", "b", "a">>
             /\ \E w1, w2 \in Workers :
                    /\ w1 # w2
                    /\ Holding(kind, "a") = {w1}
                    /\ Holding(kind, "b") = {w2}) =>
                h.ret = 2

---------------------------------------------------------------------------
(* Properties of printMetrics *)

\* C3: while the context is not cancelled, the text a listing command
\* returns is the buffers of all the shards, each exactly once, in some
\* order, every buffer the serialization of the selected collection as the
\* shard's worker found it.
C3_ReadHasOneBufferPerShard ==
    \A s \in Sessions :
        (ReadReturned(s) /\ ~cancelled) =>
            /\ SentBy(s) = Workers
            /\ IsConcatOf(LastReply(s).text, Workers, SnapBufs(s))

\* A read of a kind nobody deletes from has returned, uncancelled, with
\* different content on two shards.
C3_Witness ==
    \E s \in Sessions :
        /\ ReadReturned(s)
        /\ ~cancelled
        /\ \A t \in Sessions : DeleteLines(t) = {}
        /\ snap[s][0].coll # snap[s][1].coll
        /\ \A w \in Workers :
               snap[s][w].coll = shards0[w][KindOf(Head(LastReply(s).cmd))]

\* C4: cancelled or not, a listing command returns a nil error and the
\* buffers of the workers that sent, each whole and once, in some order; a
\* worker that took the cancellation contributes nothing; the channel is
\* never closed under a worker that still holds a buffer.
C4_CancelledReadIsWholeBuffers ==
    /\ \A w \in Workers : running[w].busy => ~closedCh[running[w].call]
    /\ \A s \in Sessions :
           ReadReturned(s) =>
               /\ LastReply(s).err = ErrNil
               /\ SentBy(s) \cup DroppedBy(s) = Workers
               /\ IsConcatOf(LastReply(s).text, SentBy(s), SnapBufs(s))

\* A read has returned after a cancellation that made one worker drop its
\* buffer while another had sent.
C4_Witness ==
    \E s \in Sessions :
        /\ ReadReturned(s)
        /\ cancelled
        /\ SentBy(s) # {}
        /\ DroppedBy(s) # {}

\* A read has returned empty, every worker having dropped its buffer.
C4_WitnessEmpty ==
    \E s \in Sessions :
        /\ ReadReturned(s)
        /\ DroppedBy(s) = Workers
        /\ LastReply(s).text = <<>>

---------------------------------------------------------------------------
(* Cancellation and the blocked caller *)

\* The steps by which the caller of printMetrics or delete gets on.
CallerStep(s) == DrainRecv(s) \/ DrainEnd(s) \/ DeleteReturn(s)

\* C5: once the context is done, a caller inside printMetrics or delete is
\* never left waiting for the workers: it can take a step of its own.
C5_CancelReleasesCaller ==
    \A s \in Sessions :
        (cancelled /\ pc[s] \in {"drain", "wait"}) => ENABLED CallerStep(s)

---------------------------------------------------------------------------
(* Delete, then read *)

\* The collection of that kind of shard w at the start, without the keys.
Remaining(kind, keys) ==
    [w \in Workers |-> Fprintln({p \in shards0[w][kind] : p[1] \notin keys})]

\* Replies i and i + 1 of session s are a delete and a read of one kind.
DeleteThenRead(s, i) ==
    /\ i + 1 <= Len(hist[s])
    /\ IsDelete(hist[s][i])
    /\ IsPrint(hist[s][i + 1])
    /\ KindOf(Head(hist[s][i].cmd)) = KindOf(Head(hist[s][i + 1].cmd))

\* When a delete, the only one of the run, has returned, no shard holds any
\* of its keys in that collection; the read of the same kind that follows
\* shows none of them, and (uncancelled) shows every other entry of every
\* shard.
ReadAfterDeleteShowsTheRest ==
    \A s \in Sessions : \A i \in 1 .. Len(hist[s]) :
        (IsDelete(hist[s][i]) /\ OnlyDelete(s)) =>
            LET kind == KindOf(Head(hist[s][i].cmd))
                keys == Range(Tail(hist[s][i].cmd))
            IN  /\ \A w \in Workers : \A k \in keys : ~HasKey(shards[w][kind], k)
                /\ DeleteThenRead(s, i) =>
                       /\ Range(hist[s][i + 1].text) \cap keys = {}
                       /\ ~cancelled =>
                              IsConcatOf(hist[s][i + 1].text, Workers,
                                         Remaining(kind, keys))

\* In the example of the specification (shard 0 holds counters {a: 5},
\* shard 1 {b: 3}, no other shard holds a), delcounters a returns 1.
ExampleDeleteReturnsOne ==
    \A s \in Sessions : \A i \in 1 .. Len(hist[s]) :
        (/\ hist[s][i].cmd = <<"delcounters", "a">>
         /\ OnlyDelete(s)
         /\ shards0[0] = MapA
         /\ \A w \in Workers \ {0} : shards0[w] = MapB) =>
            hist[s][i].ret = 1

\* C6: once a delete of k has returned no shard holds k, and the read of
\* the same kind that follows shows no entry for k and every entry the
\* delete did not name; in the example, delete a returns 1 and the read
\* shows only b.
C6_DeleteThenReadShowsTheRest ==
    /\ ReadAfterDeleteShowsTheRest
    /\ ExampleDeleteReturnsOne

\* The example has run: delcounters a has returned, and the read that
\* follows shows b and not a.
ExampleReached ==
    /\ shards0[0] = MapA
    /\ shards0[1] = MapB
    /\ ~cancelled
    /\ Len(hist["s1"]) = 2
    /\ hist["s1"][1].cmd = <<"delcounters", "a">>
    /\ hist["s1"][2].cmd = <<"counters">>
    /\ "b" \in Range(hist["s1"][2].text)
    /\ "a" \notin Range(hist["s1"][2].text)

---------------------------------------------------------------------------
(* Three sessions at once *)

ThreeDone == \A s \in Sessions : Len(hist[s]) = 1 /\ pc[s] = "await"

\* C7: with stats, counters and delgauges x running in three sessions, the
\* delete changes nothing but x in the gauges; when the three have
\* returned, no shard holds gauge x, every other gauge is as it was, the
\* stats response is the stats text, and the counters response is made of
\* serialized counters of the shards (of all of them when uncancelled).
C7_ThreeSessionsKeepShardsSound ==
    script = ScThree.lines =>
        /\ \A w \in Workers :
               /\ \A k \in Kinds \ {"gauges"} : shards[w][k] = shards0[w][k]
               /\ shards[w].gauges \in
                      {shards0[w].gauges, MetricsDelete(shards0[w].gauges, "x")}
        /\ ThreeDone =>
               /\ \A w \in Workers :
                      shards[w].gauges = MetricsDelete(shards0[w].gauges, "x")
               /\ hist["s1"][1].text = StatsText
               /\ \E W \in SUBSET Workers :
                      /\ ~cancelled => W = Workers
                      /\ IsConcatOf(hist["s2"][1].text, W,
                                    [w \in Workers |-> Fprintln(shards0[w].counters)])

\* The three have returned, and the delete did remove x from some shard.
C7_Witness ==
    /\ script = ScThree.lines
    /\ ThreeDone
    /\ \E w \in Workers : shards[w].gauges # shards0[w].gauges
    /\ ~cancelled

---------------------------------------------------------------------------
(* The session *)

\* C8: the quit command answers "goodbye" with the quit error; it is the
\* last command of its session: the loop has ended with that error, the
\* connection is closed, and no line after it has been read.
C8_QuitEndsTheSession ==
    \A s \in Sessions : \A i \in 1 .. Len(hist[s]) :
        hist[s][i].cmd = <<"quit">> =>
            /\ hist[s][i].text = <<"goodbye", "\n">>
            /\ hist[s][i].err = errClientQuit
            /\ i = Len(hist[s])
            /\ loopErr[s] = errClientQuit
            /\ conn[s] = "closed"
            /\ pc[s] = "closed"
            /\ script[s][nread[s]] = <<"quit">>

\* A session has quit with a line still unread on its connection.
C8_Witness ==
    \E s \in Sessions :
        /\ hist[s] # <<>>
        /\ LastReply(s).cmd = <<"quit">>
        /\ conn[s] = "closed"
        /\ nread[s] < Len(script[s])

\* C9: after the context is cancelled, a session that waits for a line its
\* client does not send still gets on (to close its connection) by itself.
C9_CancelEndsIdleSession ==
    \A s \in Sessions :
        (cancelled /\ pc[s] = "await" /\ nread[s] = Len(script[s])) =>
            ENABLED SessionStep(s)

\* A loop that ended was logged once when its error is none of nil,
\* context.Canceled, context.DeadlineExceeded and the quit error, and not
\* at all otherwise; nothing is logged for a session whose loop runs.
LoggedOnlyProblems ==
    \A s \in Sessions :
        logged[s] =
            IF /\ conn[s] = "closed"
               /\ loopErr[s] \notin {ErrNil, ErrCanceled, ErrDeadlineExceeded, errClientQuit}
            THEN 1 ELSE 0

\* The step that ends a session changes no other session and leaves Serve
\* accepting as it was.
EndsOnlyItself ==
    \A s \in Sessions :
        (conn[s] = "open" /\ conn'[s] = "closed") =>
            /\ serveRet' = serveRet
            /\ \A t \in Sessions \ {s} :
                   /\ conn'[t] = conn[t]
                   /\ pc'[t] = pc[t]
                   /\ logged'[t] = logged[t]
                   /\ loopErr'[t] = loopErr[t]

\* C10: a loop that ends with context.Canceled, context.DeadlineExceeded or
\* the quit error is not logged, one that ends with another non-nil error
\* is logged exactly once, and the end of a session touches no other
\* session nor the accept loop.
C10_OnlyProblemsLoggedOnlySessionEnds == []LoggedOnlyProblems /\ [][EndsOnlyItself]_vars

\* One session has ended with a read error and was logged, another ended
\* with context.Canceled and was not, a third is still open and Serve
\* still accepts.
C10_Witness ==
    /\ \E s \in Sessions : conn[s] = "closed" /\ loopErr[s] = ErrIO /\ logged[s] = 1
    /\ \E s \in Sessions : conn[s] = "closed" /\ loopErr[s] = ErrCanceled /\ logged[s] = 0
    /\ \E s \in Sessions : conn[s] = "open"
    /\ serveRet = ""

---------------------------------------------------------------------------
(* The accept loop *)

\* While Serve has not returned it accepts the next client, whatever the
\* sessions it started are doing or have ended with; a connection has a
\* session exactly when it was accepted.
ServeKeepsAccepting ==
    /\ serveRet \in {"", "accept error"}
    /\ \A s \in Sessions :
           /\ (conn[s] = "none") <=> (pc[s] = "none")
           /\ (serveRet = "" /\ s \in Clients /\ conn[s] = "none") => ENABLED Accept(s)

\* Serve returns in a step that is the failure of Accept, with its error,
\* and that step starts and ends no session; a connection is accepted, and
\* its one session started, only while Serve has not returned.
ServeReturnsOnAcceptError ==
    /\ serveRet' # serveRet =>
           /\ serveRet = ""
           /\ serveRet' = "accept error"
           /\ conn' = conn
           /\ pc' = pc
    /\ \A s \in Sessions :
           conn'[s] # conn[s] =>
               /\ serveRet' = serveRet
               /\ conn[s] = "none" =>
                      serveRet = "" /\ conn'[s] = "open" /\ pc'[s] = "await"

\* C11: Serve returns only when Accept fails, with that error; sessions
\* that fail or end neither make it return nor stop it from accepting, and
\* every accepted connection gets one session of its own.
C11_ServeEndsOnlyOnAcceptError == []ServeKeepsAccepting /\ [][ServeReturnsOnAcceptError]_vars

\* Serve has returned the accept error after a session had ended with a
\* logged error, while another session is still being served.
C11_Witness ==
    /\ serveRet = "accept error"
    /\ \E s \in Sessions : conn[s] = "closed" /\ logged[s] = 1
    /\ \E s \in Sessions : conn[s] = "open" /\ pc[s] = "await"

---------------------------------------------------------------------------
(* The close of the result channel *)

\* The workers of call s that still have the closure ahead of them or are
\* in its select.
PendingWorkers(s) ==
    {w \in Workers :
        \/ running[w].busy /\ running[w].call = s
        \/ \E i \in 1 .. Len(queue[w]) : queue[w][i].call = s /\ queue[w][i].op = "print"}

\* A closed channel has no worker left that could send on it. (wg[s] is
\* the WaitGroup of the session's latest call: of the read unless the
\* session has gone on to a delete.)
ClosedAfterAllWorkers ==
    \A s \in Sessions :
        closedCh[s] => (PendingWorkers(s) = {} /\ (pc[s] # "wait" => wg[s] = 0))

\* The channel is closed by the step of the supervisory goroutine and by
\* no other, and nothing is sent on a closed channel.
OnlySupervisorCloses ==
    \A s \in Sessions :
        /\ (~closedCh[s] /\ closedCh'[s]) =>
               (sup[s] = "waiting" /\ sup'[s] = "done" /\ PendingWorkers(s) = {}
                /\ pc'[s] = pc[s] /\ running' = running /\ queue' = queue)
        /\ (closedCh[s] /\ closedCh'[s]) => Len(results'[s]) <= Len(results[s])

\* C12: with or without cancellation the result channel is closed only
\* after every worker has sent or abandoned its buffer, no worker sends on
\* or waits at a closed channel, and only the supervisory goroutine closes.
C12_CloseAfterEveryWorker == []ClosedAfterAllWorkers /\ [][OnlySupervisorCloses]_vars

\* A channel closed after one worker sent its buffer and another abandoned
\* its own.
C12_Witness ==
    \E s \in Sessions :
        /\ closedCh[s]
        /\ \E w \in Workers : snap[s][w].st = "sent"
        /\ \E w \in Workers : snap[s][w].st = "dropped"

---------------------------------------------------------------------------
(* The counter of delete *)

\* The workers that still have the delete closure of call s ahead of them.
PendingDeletes(s) ==
    {w \in Workers :
        \E i \in 1 .. Len(queue[w]) : queue[w][i].call = s /\ queue[w][i].op = "delete"}

\* The sum of what the closure adds to the counter on each worker of ws,
\* for the command line cmd.
RECURSIVE IncrementSum(_, _)
IncrementSum(ws, cmd) ==
    IF ws = {} THEN 0
    ELSE LET w == CHOOSE x \in ws : TRUE
         IN  DeleteWork(shards[w], CommandMapper(Head(cmd)), Tail(cmd)).i
             + IncrementSum(ws \ {w}, cmd)

\* While delete waits, the counter is the sum of the increments of the
\* workers that ran the closure; whatever delete returned is the sum over
\* all of them.
CounterIsSumOfIncrements ==
    \A s \in Sessions :
        /\ pc[s] = "wait" =>
               /\ counter[s] = IncrementSum(Workers \ PendingDeletes(s), CurLine(s))
               /\ wg[s] = Cardinality(PendingDeletes(s))
        /\ \A i \in 1 .. Len(hist[s]) :
               IsDelete(hist[s][i]) => hist[s][i].ret = IncrementSum(Workers, hist[s][i].cmd)

\* delete returns in a step taken when no worker has its increment still
\* to make, and returns the counter as it then is.
ReturnAfterAllIncrements ==
    \A s \in Sessions :
        (pc[s] = "wait" /\ pc'[s] # "wait") =>
            /\ PendingDeletes(s) = {}
            /\ hist'[s] = Append(hist[s], LastReply(s)')
            /\ LastReply(s)'.ret = counter[s]
            /\ counter'[s] = counter[s]

\* C13: delete reads the counter only after all N workers have made their
\* atomic increment, so the value returned omits no worker's increment and
\* is the sum of the N per-shard increments.
C13_CounterReadAfterAllIncrements ==
    []CounterIsSumOfIncrements /\ [][ReturnAfterAllIncrements]_vars

\* A delete of several keys has returned the sum of the increments of all
\* shards.
C13_Witness ==
    \E s \in Sessions :
        /\ hist[s] # <<>>
        /\ IsDelete(LastReply(s))
        /\ Len(LastReply(s).cmd) > 2
        /\ LastReply(s).ret = IncrementSum(Workers, LastReply(s).cmd)
        /\ LastReply(s).ret >= Cardinality(Workers) * 2

---------------------------------------------------------------------------
(* A read over more shards than the channel has slots *)

\* One client that sends one listing command and stays, over one shard
\* more than the channel has slots, all shards holding the same metrics.
InitWide ==
    /\ shards = [w \in 0 .. ResultsCap |-> MapA]
    /\ shards0 = shards
    /\ script = ("s1" :> << <<"counters">> >>)
    /\ hangup = ("s1" :> Stay)
    /\ queue = [w \in Workers |-> <<>>]
    /\ running = [w \in Workers |-> IdleWorker]
    /\ cancelled = FALSE
    /\ serveRet = ""
    /\ nread = [s \in Sessions |-> 0]
    /\ conn = [s \in Sessions |-> "none"]
    /\ pc = [s \in Sessions |-> "none"]
    /\ results = [s \in Sessions |-> <<>>]
    /\ closedCh = [s \in Sessions |-> FALSE]
    /\ sup = [s \in Sessions |-> "none"]
    /\ wg = [s \in Sessions |-> 0]
    /\ counter = [s \in Sessions |-> 0]
    /\ acc = [s \in Sessions |-> <<>>]
    /\ hist = [s \in Sessions |-> <<>>]
    /\ loopErr = [s \in Sessions |-> ErrNil]
    /\ logged = [s \in Sessions |-> 0]
    /\ snap = [s \in Sessions |-> NoSnap]

\* The shards of these runs are alike, so two runs that differ only in
\* which worker moves are the same run with the workers renamed. Of the
\* workers that can run the closure, and of those in its select, the one
\* with the lowest id moves.
FirstQueued(w) == queue[w] # <<>> /\ \A v \in Workers : v < w => queue[v] = <<>>

FirstParked(w) == running[w].busy /\ \A v \in Workers : v < w => ~running[v].busy

\* The context is never cancelled in these runs.
NextWide ==
    \/ \E s \in Sessions : Accept(s)
    \/ \E s \in Sessions : StartPrint(s)
    \/ \E s \in Sessions : DrainRecv(s)
    \/ \E s \in Sessions : DrainEnd(s)
    \/ \E s \in Sessions : Supervisor(s)
    \/ \E w \in Workers : FirstQueued(w) /\ WorkerPrint(w)
    \/ \E w \in Workers : FirstParked(w) /\ WorkerSend(w)

\* Every shard eventually runs its queued work, and the goroutines of
\* printMetrics (its caller and the one that closes the channel) are
\* scheduled while they can move.
SpecWide ==
    /\ InitWide
    /\ [][NextWide]_vars
    /\ WF_vars(\E w \in Workers : FirstQueued(w) /\ WorkerPrint(w))
    /\ WF_vars(\E w \in Workers : FirstParked(w) /\ WorkerSend(w))
    /\ WF_vars(\E s \in Sessions : Supervisor(s))
    /\ WF_vars(\E s \in Sessions : DrainRecv(s) \/ DrainEnd(s))

ChannelWithinCapacity == \A s \in Sessions : Len(results[s]) <= ResultsCap

\* The ids of the workers in increasing order.
WorkerSeq == [i \in 1 .. Cardinality(Workers) |-> i - 1]

\* The read of s has returned the buffers of all workers.
ReturnedAllBuffers(s) ==
    /\ ReadReturned(s)
    /\ SentBy(s) = Workers
    /\ results[s] = <<>>
    /\ \A w \in Workers : ~running[w].busy /\ queue[w] = <<>>
    /\ LastReply(s).text = Concat(WorkerSeq, SnapBufs(s))

\* C14: the result channel never holds more than 16 buffers, and with more
\* shards than that (17), no cancellation and every shard running its
\* queued work, a read that started eventually returns with the buffers of
\* all shards: the caller's draining releases the workers held at the full
\* channel.
C14_WideReadReturnsAllBuffers ==
    /\ []ChannelWithinCapacity
    /\ \A s \in Sessions : (pc[s] = "drain") ~> ReturnedAllBuffers(s)

\* The channel is full and a worker is held in its select with its buffer.
C14_Witness ==
    \E s \in Sessions :
        /\ Len(results[s]) = ResultsCap
        /\ \E w \in Workers : running[w].busy /\ running[w].call = s
        /\ Cardinality(Workers) > ResultsCap

---------------------------------------------------------------------------
(* Who touches a MetricMap *)

\* Worker w takes the closure at the head of its queue in this step.
TakesWork(w) ==
    /\ ~running[w].busy
    /\ queue[w] # <<>>
    /\ queue'[w] = Tail(queue[w])

\* A shard's MetricMap changes, and is serialized into a buffer, only in
\* the step in which its own worker runs a closure handed to it, one
\* closure at a time; such a step touches no other shard. Steps of a
\* session's goroutine and of the closing goroutine leave every MetricMap
\* alone and pass on only buffers and the counter.
MapTouchedByItsWorker ==
    /\ \A w \in Workers :
           /\ shards'[w] # shards[w] =>
                  /\ TakesWork(w)
                  /\ Head(queue[w]).op = "delete"
                  /\ \A v \in Workers \ {w} : shards'[v] = shards[v] /\ queue'[v] = queue[v]
           /\ (running'[w].busy /\ ~running[w].busy) =>
                  /\ TakesWork(w)
                  /\ Head(queue[w]).op = "print"
                  /\ running'[w].buf = PrintWork(shards[w], Head(queue[w]).f)
                  /\ \A v \in Workers \ {w} : running'[v] = running[v]
           /\ (queue[w] # <<>> /\ queue'[w] = Tail(queue[w])) => ~running[w].busy
    /\ \A s \in Sessions :
           /\ (pc'[s] # pc[s] \/ hist'[s] # hist[s] \/ closedCh'[s] # closedCh[s])
                  => shards' = shards
           /\ (acc'[s] # acc[s] /\ acc'[s] # <<>>) =>
                  (results[s] # <<>> /\ acc'[s] = acc[s] \o Head(results[s]))

\* C15: every access of the console to a shard's MetricMap, to serialize a
\* collection or to remove keys, happens in that shard's own
\* Aggregator.Process context, one closure at a time, for any number of
\* concurrent sessions; the session goroutine and the closing goroutine
\* handle only buffers and the counter.
C15_MapTouchedOnlyInItsShardContext == [][MapTouchedByItsWorker]_vars

\* A shard has had keys removed by its worker while the worker of another
\* shard is held in the select of a session's read and has the closure of
\* another session's call queued behind it.
C15_Witness ==
    \E w, v \in Workers :
        /\ w # v
        /\ shards[w] # shards0[w]
        /\ running[v].busy
        /\ queue[v] # <<>>
        /\ Head(queue[v]).call # running[v].call

---------------------------------------------------------------------------
(* What a command changes in the shards *)

\* MetricMap m without the keys in the collection of that kind, all else
\* as it is.
WithoutKeys(m, kind, keys) ==
    [k \in Kinds |-> IF k = kind THEN {p \in m[k] : p[1] \notin Range(keys)} ELSE m[k]]

\* A step changes a shard only when its worker runs the closure of a del
\* command, and then by removing the command's keys from the collection of
\* the command's kind: the other three collections and the other keys
\* stay. Every other step, those of printMetrics among them, leaves all
\* four collections of every shard as they are.
DeleteChangesOnlyItsKind ==
    \A w \in Workers :
        IF queue[w] # <<>> /\ queue'[w] = Tail(queue[w]) /\ Head(queue[w]).op = "delete"
        THEN LET line == CurLine(Head(queue[w]).call)
             IN  shards'[w] = WithoutKeys(shards[w], DeleteNoun(Head(line)), Tail(line))
        ELSE shards'[w] = shards[w]

\* Once a del command has returned, no shard holds any of its keys in the
\* collection of its kind.
DeletedFromEveryShard ==
    \A s \in Sessions : \A i \in 1 .. Len(hist[s]) :
        IsDelete(hist[s][i]) =>
            \A w \in Workers : \A k \in Range(Tail(hist[s][i].cmd)) :
                ~HasKey(shards[w][DeleteNoun(Head(hist[s][i].cmd))], k)

\* C16: delcounters, deltimers, delgauges and delsets remove the given keys
\* from the counters, timers, gauges and sets collection respectively on
\* every shard and leave the other three collections and the other keys of
\* every shard unchanged; printMetrics changes no collection.
C16_DelActsOnlyOnItsKind == []DeletedFromEveryShard /\ [][DeleteChangesOnlyItsKind]_vars

\* A del command has returned having removed a key from a shard that
\* still holds another key of the same kind, and a listing has run too.
C16_Witness ==
    \E s, t \in Sessions :
        /\ hist[s] # <<>>
        /\ IsDelete(LastReply(s))
        /\ ReadReturned(t)
        /\ \E w \in Workers :
               LET kind == DeleteNoun(Head(LastReply(s).cmd))
               IN  /\ shards[w][kind] # shards0[w][kind]
                   /\ shards[w][kind] # {}
                   /\ \A k \in Kinds \ {kind} : shards[w][k] = shards0[w][k] /\ shards[w][k] # {}

---------------------------------------------------------------------------
(* What a read leaves behind *)

\* A read that has returned has left nothing running: its closure has
\* returned on every worker, none is held in the select, the closing
\* goroutine is done, and the channel is closed and empty.
ReturnedReadLeftNothing ==
    \A s \in Sessions :
        ReadReturned(s) =>
            /\ PendingWorkers(s) = {}
            /\ \A w \in Workers : snap[s][w].st \in {"sent", "dropped"}
            /\ pc[s] # "wait" => wg[s] = 0
            /\ sup[s] = "done"
            /\ closedCh[s]
            /\ results[s] = <<>>

\* printMetrics returns in a step that finds all of that already so, and a
\* channel once closed, and a closing goroutine once done, stay so until
\* the session makes its next call: the channel is closed once.
ClosedOncePerRead ==
    \A s \in Sessions :
        /\ (pc[s] = "drain" /\ pc'[s] # "drain") =>
               /\ PendingWorkers(s) = {} /\ sup[s] = "done"
               /\ closedCh[s] /\ results[s] = <<>>
               /\ \A w \in Workers : running'[w] = running[w] /\ queue'[w] = queue[w]
        /\ (closedCh[s] /\ ~closedCh'[s]) => (pc[s] = "await" /\ pc'[s] = "drain")
        /\ (sup[s] = "done" /\ sup'[s] # "done") => (pc[s] = "await" /\ pc'[s] = "drain")
        /\ (~closedCh[s] /\ closedCh'[s]) => sup[s] = "waiting"

\* C17: when printMetrics returns, every worker of its fan-out has finished
\* its closure, none is blocked at the enqueue, the closing goroutine has
\* ended, and the channel has been closed exactly once and is empty: a
\* finished read keeps no shard's execution context occupied.
C17_ReturnedReadLeftNothing == []ReturnedReadLeftNothing /\ [][ClosedOncePerRead]_vars

\* A read has returned after a cancellation made a worker drop its buffer,
\* while a worker has run the closure of another session's delete that is
\* still waiting for the others.
C17_Witness ==
    \E s \in Sessions :
        /\ ReadReturned(s)
        /\ DroppedBy(s) # {}
        /\ \E t \in Sessions \ {s} : pc[t] = "wait" /\ wg[t] < Cardinality(Workers)

---------------------------------------------------------------------------
(* Reads that run at the same time *)

\* Two clients that each send one listing command of the same kind.
ScSameReads ==
    [lines |-> "s1" :> << <<"counters">> >> @@ "s2" :> << <<"counters">> >>,
     hangup |-> "s1" :> Stay @@ "s2" :> Stay]

InitReads ==
    /\ shards \in [ShardIds -> {MapA, MapB}]
    /\ shards0 = shards
    /\ \E sc \in {ScTwoReads, ScSameReads} : script = sc.lines /\ hangup = sc.hangup
    /\ queue = [w \in Workers |-> <<>>]
    /\ running = [w \in Workers |-> IdleWorker]
    /\ cancelled = FALSE
    /\ serveRet = ""
    /\ nread = [s \in Sessions |-> 0]
    /\ conn = [s \in Sessions |-> "none"]
    /\ pc = [s \in Sessions |-> "none"]
    /\ results = [s \in Sessions |-> <<>>]
    /\ closedCh = [s \in Sessions |-> FALSE]
    /\ sup = [s \in Sessions |-> "none"]
    /\ wg = [s \in Sessions |-> 0]
    /\ counter = [s \in Sessions |-> 0]
    /\ acc = [s \in Sessions |-> <<>>]
    /\ hist = [s \in Sessions |-> <<>>]
    /\ loopErr = [s \in Sessions |-> ErrNil]
    /\ logged = [s \in Sessions |-> 0]
    /\ snap = [s \in Sessions |-> NoSnap]

\* Serve, the sessions and the workers, of which only the steps of a
\* listing command can be taken with these clients.
NextReads ==
    \/ Cancel
    \/ \E s \in Sessions : Accept(s)
    \/ \E s \in Sessions : StartPrint(s)
    \/ \E s \in Sessions : DrainRecv(s)
    \/ \E s \in Sessions : DrainEnd(s)
    \/ \E s \in Sessions : Supervisor(s)
    \/ \E w \in ShardIds : WorkerPrint(w)
    \/ \E w \in ShardIds : WorkerSend(w)
    \/ \E w \in ShardIds : WorkerAbandon(w)

SpecReads == InitReads /\ [][NextReads]_vars

\* A buffer enters the channel of the call its worker runs the closure
\* for and no other channel, and what a call collects comes out of its own
\* channel.
BufferGoesToItsCall ==
    \A s \in Sessions :
        /\ Len(results'[s]) > Len(results[s]) =>
               \E w \in Workers :
                   /\ running[w].busy /\ running[w].call = s
                   /\ ~running'[w].busy
                   /\ results'[s] = Append(results[s], running[w].buf)
                   /\ \A t \in Sessions \ {s} : results'[t] = results[t] /\ acc'[t] = acc[t]
        /\ (acc'[s] # acc[s] /\ pc[s] = "drain") =>
               /\ results[s] # <<>>
               /\ acc'[s] = acc[s] \o Head(results[s])
               /\ results'[s] = Tail(results[s])
               /\ \A t \in Sessions \ {s} : results'[t] = results[t] /\ acc'[t] = acc[t]

\* A call holds, in its channel and in what it collected, only buffers
\* made for it; returned without cancellation, it has one buffer of every
\* shard.
EachReadHasItsOwnBuffers ==
    \A s \in Sessions :
        /\ pc[s] = "drain" =>
               \E o \in Orders(SentBy(s)) : acc[s] \o Concat([i \in 1 .. Len(results[s]) |-> i], results[s]) = Concat(o, SnapBufs(s))
        /\ (ReadReturned(s) /\ ~cancelled) =>
               IsConcatOf(LastReply(s).text, Workers, SnapBufs(s))

\* C18: printMetrics calls of different sessions running at the same time,
\* over the same kind or different kinds, are isolated: each has its own
\* channel and accumulator, every buffer made for a call is delivered to
\* that call only, and each call's output, without cancellation, has
\* exactly one buffer per shard.
C18_ConcurrentReadsIsolated == []EachReadHasItsOwnBuffers /\ [][BufferGoesToItsCall]_vars

\* Two reads are collecting at the same time, each with buffers in its
\* channel that differ from the other's, one having collected some
\* already.
C18_Witness ==
    \E s, t \in Sessions :
        /\ s # t
        /\ pc[s] = "drain" /\ pc[t] = "drain"
        /\ results[s] # <<>> /\ results[t] # <<>>
        /\ results[s] # results[t]
        /\ acc[s] # <<>>

---------------------------------------------------------------------------
(* The connection of a session *)

\* The errors the command loop of these runs ends with: quit, the two
\* cancellation errors, another error, and none at the end of the input.
ExitErrors == {errClientQuit, ErrCanceled, ErrDeadlineExceeded, ErrIO, ErrNil}

\* The connection is closed exactly when serveConnection has ended, and
\* open exactly while its loop runs.
ClosedIffEnded ==
    \A s \in Sessions :
        /\ (conn[s] = "closed") <=> (pc[s] = "closed")
        /\ (conn[s] = "open") <=> (pc[s] \in {"await", "drain", "wait"})
        /\ conn[s] = "closed" => loopErr[s] \in ExitErrors

\* The connection is closed in the step in which the loop ends, whatever
\* it ends with, and a closed connection is not touched again: the session
\* reads, answers and closes nothing more.
ClosedOnceWhenLoopEnds ==
    \A s \in Sessions :
        /\ conn'[s] # conn[s] =>
               \/ conn[s] = "none" /\ conn'[s] = "open"
               \/ conn[s] = "open" /\ conn'[s] = "closed" /\ pc[s] = "await"
        /\ (pc[s] # "closed" /\ pc'[s] = "closed") =>
               (conn[s] = "open" /\ conn'[s] = "closed")
        /\ conn[s] = "closed" =>
               /\ conn'[s] = "closed" /\ pc'[s] = "closed"
               /\ hist'[s] = hist[s] /\ nread'[s] = nread[s]
               /\ loopErr'[s] = loopErr[s] /\ logged'[s] = logged[s]

\* C19: the connection of a session is closed exactly once on every exit
\* path of serveConnection (quit, a cancellation error, any other error,
\* no error at the end of the input) and never while the loop is running.
C19_ConnClosedOnceOnEveryExit == []ClosedIffEnded /\ [][ClosedOnceWhenLoopEnds]_vars

\* One session has ended with a cancellation error and another with an
\* error that was logged; both connections are closed while a third
\* session's is open.
C19_Witness ==
    \E s, t, u \in Sessions :
        /\ conn[s] = "closed" /\ loopErr[s] = ErrCanceled
        /\ conn[t] = "closed" /\ loopErr[t] = ErrIO /\ logged[t] = 1
        /\ conn[u] = "open"

\* A session has ended by quit and its connection is closed.
C19_WitnessQuit ==
    \E s \in Sessions : conn[s] = "closed" /\ loopErr[s] = errClientQuit /\ hist[s] # <<>>

\* A session has ended with no error at the end of its input and its
\* connection is closed.
C19_WitnessEndOfInput ==
    \E s \in Sessions : conn[s] = "closed" /\ loopErr[s] = ErrNil /\ hist[s] # <<>>

---------------------------------------------------------------------------
(* Delete and cancellation *)

\* Shard w holds none of the keys of command line cmd in cmd's kind.
KeysGone(w, cmd) ==
    \A k \in Range(Tail(cmd)) : ~HasKey(shards[w][DeleteNoun(Head(cmd))], k)

\* Cancelled or not: a queued delete closure can run; every shard whose
\* closure ran holds none of the keys; and a delete that has returned ran
\* on every shard, so none holds a key.
DeleteNeverPartial ==
    /\ \A w \in Workers :
           (~running[w].busy /\ queue[w] # <<>> /\ Head(queue[w]).op = "delete")
               => ENABLED WorkerDelete(w)
    /\ \A s \in Sessions :
           /\ pc[s] = "wait" =>
                  \A w \in Workers \ PendingDeletes(s) : KeysGone(w, CurLine(s))
           /\ (pc[s] = "await" /\ hist[s] # <<>> /\ IsDelete(LastReply(s))) =>
                  /\ PendingDeletes(s) = {}
                  /\ \A w \in Workers : KeysGone(w, LastReply(s).cmd)

\* The step in which a worker runs a delete closure removes every key of
\* the call from its shard and counts, with the context done as without.
DeleteWorkIgnoresCancel ==
    \A w \in Workers :
        (queue[w] # <<>> /\ queue'[w] = Tail(queue[w]) /\ Head(queue[w]).op = "delete") =>
            LET item == Head(queue[w])
            IN  /\ \A k \in Range(item.keys) :
                       ~HasKey(shards'[w][DeleteNoun(Head(CurLine(item.call)))], k)
                /\ counter'[item.call] = counter[item.call] + Len(item.keys)
                /\ wg'[item.call] = wg[item.call] - 1

\* C20: delete does not consult the context in its per-shard work: with the
\* context cancelled before the call or during it, every shard whose
\* closure runs removes all the given keys, so a delete that has returned
\* is never partial across shards.
C20_DeleteIgnoresCancellation == []DeleteNeverPartial /\ [][DeleteWorkIgnoresCancel]_vars

\* A session's read lost a buffer to the cancellation, and the delete the
\* session called after that read, with the context already done, has
\* returned with the key gone from a shard that held it.
C20_Witness ==
    \E s \in Sessions :
        /\ cancelled
        /\ Len(hist[s]) = 2
        /\ IsPrint(hist[s][1]) /\ DroppedBy(s) # {}
        /\ IsDelete(hist[s][2]) /\ pc[s] = "await"
        /\ \E w \in Workers : \E k \in Range(Tail(hist[s][2].cmd)) :
               /\ HasKey(shards0[w][DeleteNoun(Head(hist[s][2].cmd))], k)
               /\ ~HasKey(shards[w][DeleteNoun(Head(hist[s][2].cmd))], k)

=============================================================================
